---- MODULE Spec2Model ----
(***************************************************************************)
(* Location-tracking session of the driver screen (DriverScreen.tsx):     *)
(* permission gate, connection manager, session tracker, manual and test  *)
(* submission, history and statistics; and the session of the user       *)
(* (AuthContext.tsx): session restore, login, logout and the route guard. *)
(*                                                                         *)
(* React state is modelled as committed at once: a handler invoked by the *)
(* user reads the state of the current render.  An async function keeps   *)
(* the values its closure captured when it was invoked; where a later     *)
(* step reads such a value it is carried in the process state.  Every     *)
(* await is a separate step, so other handlers interleave there.  A       *)
(* position fetch that resolves and the continuation of its caller run    *)
(* in one step (promise continuations run before the next event).         *)
(***************************************************************************)
EXTENDS Integers, Sequences, FiniteSets, TLC

(* ------------------------------ bounds -------------------------------- *)
\* transport instances created during one behaviour (specification Spec)
MaxSockets == 1
\* transport instances created during one behaviour (specification
\* SpecReconnect)
MaxSocketsReconnect == 2
\* sendLocation messages emitted during one behaviour (specification Spec)
MaxSent == 1
\* sendLocation messages emitted during one behaviour (specification SpecData)
MaxSentData == 2
\* sendLocation messages emitted during one behaviour (specification SpecHist)
MaxSentHist == 102
\* sendLocation messages emitted during one behaviour (specification
\* SpecSession)
MaxSentSession == 1
\* sendLocation messages emitted during one behaviour (specification
\* SpecClear)
MaxSentClear == 2
\* sendLocation messages emitted during one behaviour (specification
\* SpecPaths)
MaxSentPaths == 2
\* startTracking invocations and timer or manual position fetches that are
\* in flight at the same time
MaxPending == 1
\* subscriptions (timers) that are live without being referenced
MaxLeaked == 1
\* connectToServer invocations awaiting the token at the same time
MaxConnects == 1
\* last instant of the clock
MaxNow == 1
\* logout() calls awaiting the token store at the same time
MaxLogouts == 1

(* ------------------------- program constants -------------------------- *)
\* prev.slice(0, 99): records kept from the previous history
SliceEnd == 99
\* calculateDistance: R, Earth radius in km
EarthRadiusKm == 6371
\* useCartagenaTestLocation: accuracy of a test location, in metres
TestAccuracy == 15

(* --------------------------- input domains ---------------------------- *)
\* Coordinates are in thousandths of a degree.  All positions lie on one
\* meridian inside the Cartagena test rectangle (10.28..10.5 N, 75.6..75.35 W).
Longitude == 0 - 75479
Latitudes == {10391, 10392}
\* coords.accuracy delivered by the Geolocation Provider, in metres
\* (0 stands for a missing value: "accuracy || undefined")
GpsAccuracies == {0, 8}
\* avgAccuracy is kept in 1/AccUnit metres so that halving stays exact
AccUnit == 2 * 2 * 2 * 2
Undefined == 0 - 1
NoTime == 0 - 1

Min(a, b) == IF a < b THEN a ELSE b
Abs(x) == IF x < 0 THEN 0 - x ELSE x

VARIABLES
  \* React state of DriverScreen
  isConnected, isConnecting, connectionStatus, isTracking, permissionStatus,
  currentLocation, refreshing, sentLocations, sessionStats,
  \* refs
  socketRef, locationSubscription, trackingIntervalRef, lastLocationRef,
  \* collaborators: transport instances, live but unreferenced subscriptions
  \* and timers, secure token store, whether the screen is mounted, OS
  \* permission, clock, messages emitted, last notice shown by Alert.alert
  sockets, leakedSubs, leakedTimers, accessToken, mounted, osPermission, now,
  emitted, lastAlert,
  \* async functions in flight
  connectPending, startFetching, startWatching, timerFetching,
  manualFetching, permFlow, permClosure,
  \* history variables of the verification: SentRecords created since the
  \* last clear, whether clear was ever confirmed, whether stop() has
  \* returned and start() was not called since
  nSubmitted, everCleared, stopReturned,
  \* React state of AuthProvider, the path shown by the router, whether
  \* the effect of useProtectedRoute is due to run
  user, isLoading, route, guardDue,
  \* async functions of AuthProvider in flight: position of
  \* loadUserFromStorage ("token", "me", "delete", in the catch block
  \* "catchRead" after the token read rejected and "catchDelete" after the
  \* request or the deletion did, "done") and of login ("idle", "login",
  \* "store", "me"), logout() calls awaiting the store
  loadPc, loginPc, logoutPending,
  \* history variable: the stored token was written by the login attempt
  \* that ran last
  storedByLogin

reactVars == <<isConnected, isConnecting, connectionStatus, isTracking,
               permissionStatus, currentLocation, refreshing, sentLocations,
               sessionStats>>
refVars == <<socketRef, locationSubscription, trackingIntervalRef,
             lastLocationRef>>
envVars == <<sockets, leakedSubs, leakedTimers, accessToken, mounted,
             osPermission, now, emitted, lastAlert>>
procVars == <<connectPending, startFetching, startWatching, timerFetching,
              manualFetching, permFlow, permClosure>>
ghostVars == <<nSubmitted, everCleared, stopReturned>>
authVars == <<user, isLoading, route, guardDue, loadPc, loginPc,
              logoutPending, storedByLogin>>
vars == <<reactVars, refVars, envVars, procVars, ghostVars, authVars>>

\* variable groups that the building blocks below write
connVars == <<isConnected, isConnecting, connectionStatus>>
trackVars == <<isTracking, locationSubscription, trackingIntervalRef>>
sendVars == <<sentLocations, sessionStats, emitted, nSubmitted>>
locVars == <<currentLocation, lastLocationRef>>
permVars == <<permissionStatus, osPermission, permFlow, permClosure>>
fetchVars == <<startFetching, startWatching, timerFetching, manualFetching,
               refreshing>>

(* ------------------------------ values -------------------------------- *)
\* no LocationData / no LocationObject (null)
NullLocation == [latitude |-> 0, longitude |-> 0, accuracy |-> Undefined,
                 timestamp |-> NoTime]

\* a reading of the Geolocation Provider (coords of a LocationObject)
Readings == [latitude : Latitudes, longitude : {Longitude},
             accuracy : GpsAccuracies]

\* "x || undefined"
OrUndefined(x) == IF x = 0 THEN Undefined ELSE x
\* "x || 0"
OrZero(x) == IF x = Undefined \/ x = 0 THEN 0 ELSE x

\* the LocationData built from a LocationObject at instant t
LocationDataOf(reading, t) ==
  [latitude |-> reading.latitude, longitude |-> reading.longitude,
   accuracy |-> OrUndefined(reading.accuracy), timestamp |-> t]

\* the LocationObject kept in currentLocation
LocationObjectOf(reading, t) ==
  [latitude |-> reading.latitude, longitude |-> reading.longitude,
   accuracy |-> reading.accuracy, timestamp |-> t]

\* async functions of the tracker that are awaiting
PendingOps == startFetching + startWatching + timerFetching + manualFetching

SocketConnected == socketRef # 0 /\ sockets[socketRef] = "connected"
\* the transport instances created so far are sockets[1], sockets[2], ...
Sockets == 1..Len(sockets)
OpenSockets == {s \in Sockets : sockets[s] \in {"opening", "connected"}}

\* currentPath of useProtectedRoute, "/" followed by the segments joined
\* with "/": the routes of the root layout and of (tabs)
Paths == {"/", "/(tabs)", "/(tabs)/driver", "/+not-found"}
\* isLoginRoute: index.tsx of (tabs), the login screen
isLoginRoute(currentPath) == currentPath = "/(tabs)" \/ currentPath = "/"
\* isDriverRoute: currentPath.startsWith("/(tabs)/driver")
isDriverRoute(currentPath) ==
  /\ Len(currentPath) >= Len("/(tabs)/driver")
  /\ SubSeq(currentPath, 1, Len("/(tabs)/driver")) = "/(tabs)/driver"

Init ==
  /\ isConnected = FALSE
  /\ isConnecting = FALSE
  /\ connectionStatus = "Desconectado"
  /\ isTracking = FALSE
  /\ permissionStatus = "undetermined"
  /\ currentLocation = NullLocation
  /\ refreshing = FALSE
  /\ sentLocations = << >>
  /\ sessionStats = [totalLocationsSent |-> 0, sessionStartTime |-> 0,
                     lastLocationTime |-> NoTime, avgAccuracy |-> 0,
                     totalDistance |-> 0, isActive |-> FALSE]
  /\ socketRef = 0
  /\ locationSubscription = FALSE
  /\ trackingIntervalRef = FALSE
  /\ lastLocationRef = NullLocation
  /\ sockets = << >>
  /\ leakedSubs = 0
  /\ leakedTimers = 0
  /\ accessToken = TRUE
  /\ mounted = TRUE
  /\ osPermission \in {"undetermined", "granted", "denied"}
  /\ now = 0
  /\ emitted = 0
  /\ lastAlert = "none"
  /\ connectPending = 0
  /\ startFetching = 0
  /\ startWatching = 0
  /\ timerFetching = 0
  /\ manualFetching = 0
  \* the mount effect has invoked requestLocationPermissions
  /\ permFlow = "query"
  /\ permClosure = "undetermined"
  /\ nSubmitted = 0
  /\ everCleared = FALSE
  /\ stopReturned = FALSE
  \* the session was restored or a login succeeded: the router shows the
  \* driver screen to the authenticated user
  /\ user = TRUE
  /\ isLoading = FALSE
  /\ route = "/(tabs)/driver"
  /\ guardDue = FALSE
  /\ loadPc = "done"
  /\ loginPc = "idle"
  /\ logoutPending = 0
  /\ storedByLogin = FALSE

\* the state after AuthProvider is constructed: no user, isLoading, the
\* mount effect has invoked loadUserFromStorage, which awaits the token
\* store; the router shows the login route or (a deep link) the driver
\* route, whose screen is then mounted
InitApp ==
  /\ isConnected = FALSE
  /\ isConnecting = FALSE
  /\ connectionStatus = "Desconectado"
  /\ isTracking = FALSE
  /\ permissionStatus = "undetermined"
  /\ currentLocation = NullLocation
  /\ refreshing = FALSE
  /\ sentLocations = << >>
  /\ sessionStats = [totalLocationsSent |-> 0, sessionStartTime |-> 0,
                     lastLocationTime |-> NoTime, avgAccuracy |-> 0,
                     totalDistance |-> 0, isActive |-> FALSE]
  /\ socketRef = 0
  /\ locationSubscription = FALSE
  /\ trackingIntervalRef = FALSE
  /\ lastLocationRef = NullLocation
  /\ sockets = << >>
  /\ leakedSubs = 0
  /\ leakedTimers = 0
  /\ accessToken \in BOOLEAN
  /\ route \in Paths
  /\ mounted = isDriverRoute(route)
  /\ osPermission \in {"undetermined", "granted", "denied"}
  /\ now = 0
  /\ emitted = 0
  /\ lastAlert = "none"
  /\ connectPending = 0
  /\ startFetching = 0
  /\ startWatching = 0
  /\ timerFetching = 0
  /\ manualFetching = 0
  /\ permFlow = IF mounted THEN "query" ELSE "idle"
  /\ permClosure = "undetermined"
  /\ nSubmitted = 0
  /\ everCleared = FALSE
  /\ stopReturned = FALSE
  /\ user = FALSE
  /\ isLoading = TRUE
  /\ guardDue = TRUE
  /\ loadPc = "token"
  /\ loginPc = "idle"
  /\ logoutPending = 0
  /\ storedByLogin = FALSE

(* --------------------------- pure functions --------------------------- *)
\* calculateDistance: haversine with R = 6371 km, result in metres (rounded
\* down).  Every position of the model lies on one meridian, where
\* dLon = 0, a = sin^2(dLat/2) and c = |dLat| in radians, so the result is
\* R * 1000 * |dLat| * pi / 180 with dLat in degrees; pi is taken as 355/113
\* and latitudes are in thousandths of a degree.
calculateDistance(lat1, lon1, lat2, lon2) ==
  (EarthRadiusKm * Abs(lat2 - lat1) * 355) \div (180 * 113)

\* the SentLocation built by sendLocation: {...locationData, id, type}
SentLocationOf(locationData, type, t) ==
  [id |-> t, type |-> type, latitude |-> locationData.latitude,
   longitude |-> locationData.longitude, accuracy |-> locationData.accuracy,
   timestamp |-> locationData.timestamp]

\* the history updater keeping one element more: prev.slice(0, 100)
PrependSliced_SliceOneMore(prev, sentLocation) ==
  <<sentLocation>> \o SubSeq(prev, 1, Min(Len(prev), SliceEnd + 1))

\* the history updater dropping the newest of the previous records instead
\* of the oldest: prev.slice(-99)
PrependSliced_EvictNewest(prev, sentLocation) ==
  <<sentLocation>>
    \o SubSeq(prev, Len(prev) - Min(Len(prev), SliceEnd) + 1, Len(prev))

\* the updater of setSentLocations: [sentLocation, ...prev.slice(0, 99)]
PrependSliced(prev, sentLocation) ==
  <<sentLocation>> \o SubSeq(prev, 1, Min(Len(prev), SliceEnd))

\* the running average that leaves a sample without accuracy out
NewAvgAccuracy_SkipsMissing(prevAvg, accuracy) ==
  IF accuracy = Undefined THEN prevAvg
  ELSE IF prevAvg = 0 THEN accuracy * AccUnit
  ELSE (prevAvg + accuracy * AccUnit) \div 2

\* the running average of the updater of setSessionStats
NewAvgAccuracy(prevAvg, accuracy) ==
  IF prevAvg = 0
    THEN OrZero(accuracy) * AccUnit
    ELSE (prevAvg + OrZero(accuracy) * AccUnit) \div 2

\* the distance the updater of setSessionStats adds: lastRef is
\* lastLocationRef.current, sameObject tells whether it is the very object
\* that is being sent
DistanceAdded(lastRef, locationData, sameObject) ==
  IF lastRef # NullLocation /\ ~sameObject
    THEN calculateDistance(lastRef.latitude, lastRef.longitude,
                           locationData.latitude, locationData.longitude)
    ELSE 0

\* the statistics updater counting the records of the history instead of
\* the submissions
NewSessionStats_CountCapped(prev, locationData, lastRef, sameObject) ==
  [prev EXCEPT
     !.totalLocationsSent = Min(prev.totalLocationsSent + 1, SliceEnd + 1),
     !.lastLocationTime = locationData.timestamp,
     !.avgAccuracy = NewAvgAccuracy(prev.avgAccuracy, locationData.accuracy),
     !.totalDistance = prev.totalDistance
                       + DistanceAdded(lastRef, locationData, sameObject)]

\* the updater of setSessionStats in sendLocation
NewSessionStats(prev, locationData, lastRef, sameObject) ==
  [prev EXCEPT
     !.totalLocationsSent = prev.totalLocationsSent + 1,
     !.lastLocationTime = locationData.timestamp,
     !.avgAccuracy = NewAvgAccuracy(prev.avgAccuracy, locationData.accuracy),
     !.totalDistance = prev.totalDistance
                       + DistanceAdded(lastRef, locationData, sameObject)]

\* sendLocation handing the sample to the transport twice
sendLocation_EmitsTwice(locationData, type, lastRef, sameObject) ==
  IF ~SocketConnected
    THEN UNCHANGED sendVars
    ELSE /\ emitted' = emitted + 2
         /\ sentLocations' =
              PrependSliced(sentLocations,
                            SentLocationOf(locationData, type, now))
         /\ sessionStats' =
              NewSessionStats(sessionStats, locationData, lastRef, sameObject)
         /\ nSubmitted' = nSubmitted + 1

\* sendLocation without its check of the transport
sendLocation_NoConnectionCheck(locationData, type, lastRef, sameObject) ==
  /\ emitted' = emitted + 1
  /\ sentLocations' =
       PrependSliced(sentLocations, SentLocationOf(locationData, type, now))
  /\ sessionStats' =
       NewSessionStats(sessionStats, locationData, lastRef, sameObject)
  /\ nSubmitted' = nSubmitted + 1

(* -------------------- functions shared by handlers -------------------- *)
\* sendLocation(locationData, type); writes sendVars.  lastRef is the value
\* of lastLocationRef.current when the statistics updater runs.
sendLocation(locationData, type, lastRef, sameObject) ==
  IF ~SocketConnected
    THEN UNCHANGED sendVars
    ELSE /\ emitted' = emitted + 1
         /\ sentLocations' =
              PrependSliced(sentLocations,
                            SentLocationOf(locationData, type, now))
         /\ sessionStats' =
              NewSessionStats(sessionStats, locationData, lastRef, sameObject)
         /\ nSubmitted' = nSubmitted + 1

\* the notice left by a handler that called sendLocation and then shows
\* `after` itself ("none": shows nothing)
SendAlert(after) ==
  IF after # "none" THEN after
  ELSE IF SocketConnected THEN lastAlert ELSE "NoConnection"

\* stopTracking that removes the subscription and leaves the interval
stopTracking_KeepsInterval ==
  /\ isTracking' = FALSE
  /\ locationSubscription' = FALSE
  /\ trackingIntervalRef' = trackingIntervalRef

\* stopTracking; writes trackVars
stopTracking ==
  /\ isTracking' = FALSE
  /\ locationSubscription' = FALSE
  /\ trackingIntervalRef' = FALSE

\* getCurrentLocation after Location.getCurrentPositionAsync resolved;
\* writes locVars
getCurrentLocationResolved(reading) ==
  /\ currentLocation' = LocationObjectOf(reading, now)
  /\ lastLocationRef' = LocationDataOf(reading, now)

(* ------------------------- connection manager ------------------------- *)
\* connectToServer guarded by the connected flag alone
ConnectToServer_GuardConnectedOnly ==
  IF isConnected
    THEN UNCHANGED vars
    ELSE /\ connectPending < MaxConnects
         /\ isConnecting' = TRUE
         /\ connectionStatus' = "Conectando..."
         /\ connectPending' = connectPending + 1
         /\ UNCHANGED <<isConnected, isTracking, permissionStatus,
                        currentLocation, refreshing, sentLocations,
                        sessionStats, refVars, envVars, authVars, startFetching,
                        startWatching, timerFetching, manualFetching,
                        permFlow, permClosure, ghostVars>>

\* connect(): connectToServer up to the await of the stored token
ConnectToServer ==
  IF isConnecting \/ isConnected
    THEN UNCHANGED vars
    ELSE /\ connectPending < MaxConnects
         /\ isConnecting' = TRUE
         /\ connectionStatus' = "Conectando..."
         /\ connectPending' = connectPending + 1
         /\ UNCHANGED <<isConnected, isTracking, permissionStatus,
                        currentLocation, refreshing, sentLocations,
                        sessionStats, refVars, envVars, authVars, startFetching,
                        startWatching, timerFetching, manualFetching,
                        permFlow, permClosure, ghostVars>>

\* connectToServer after SecureStore.getItemAsync resolved; io() creates
\* a new transport instance, which starts to connect
ConnectTokenRead(maxSockets) ==
  /\ connectPending > 0
  /\ connectPending' = connectPending - 1
  /\ IF ~accessToken
       THEN /\ lastAlert' = "AuthMissing"
            /\ connectionStatus' = "Error de autenticacion"
            /\ isConnecting' = FALSE
            /\ UNCHANGED <<sockets, socketRef>>
       ELSE /\ Len(sockets) < maxSockets
            /\ sockets' = Append(sockets, "opening")
            /\ socketRef' = Len(sockets) + 1
            /\ UNCHANGED <<lastAlert, connectionStatus, isConnecting>>
  /\ UNCHANGED <<isConnected, trackVars, permVars, locVars, fetchVars,
                 sendVars, leakedSubs, leakedTimers, accessToken, mounted,
                 authVars, now, everCleared, stopReturned>>

\* connectToServer: SecureStore.getItemAsync rejected (catch)
ConnectTokenReadFailed ==
  /\ connectPending > 0
  /\ connectPending' = connectPending - 1
  /\ isConnecting' = FALSE
  /\ connectionStatus' = "Error de conexion"
  /\ lastAlert' = "ConnectFailed"
  /\ UNCHANGED <<isConnected, sockets, socketRef, trackVars, permVars, locVars,
                 fetchVars, sendVars, leakedSubs, leakedTimers, accessToken,
                 mounted, authVars, now, everCleared, stopReturned>>

\* the connect handler starting the statistics of the session afresh
SocketConnectEvent_ResetsCounters(s) ==
  /\ s \in Sockets
  /\ sockets[s] = "opening"
  /\ sockets' = [sockets EXCEPT ![s] = "connected"]
  /\ isConnected' = TRUE
  /\ isConnecting' = FALSE
  /\ connectionStatus' = "Conectado"
  /\ sessionStats' = [sessionStats EXCEPT !.sessionStartTime = now,
                                          !.isActive = TRUE,
                                          !.totalLocationsSent = 0,
                                          !.totalDistance = 0,
                                          !.avgAccuracy = 0]
  /\ lastAlert' = "Connected"
  /\ UNCHANGED <<socketRef, trackVars, permVars, locVars, fetchVars,
                 sentLocations, emitted, nSubmitted, leakedSubs, leakedTimers,
                 accessToken, mounted, authVars, now, connectPending,
                 everCleared, stopReturned>>

\* the connect handler without the update of the session statistics
SocketConnectEvent_KeepsSessionStats(s) ==
  /\ s \in Sockets
  /\ sockets[s] = "opening"
  /\ sockets' = [sockets EXCEPT ![s] = "connected"]
  /\ isConnected' = TRUE
  /\ isConnecting' = FALSE
  /\ connectionStatus' = "Conectado"
  /\ lastAlert' = "Connected"
  /\ UNCHANGED <<socketRef, trackVars, permVars, locVars, fetchVars, sendVars,
                 leakedSubs, leakedTimers, accessToken, mounted, authVars, now,
                 connectPending, everCleared, stopReturned>>

\* socket.on("connect")
SocketConnectEvent(s) ==
  /\ s \in Sockets
  /\ sockets[s] = "opening"
  /\ sockets' = [sockets EXCEPT ![s] = "connected"]
  /\ isConnected' = TRUE
  /\ isConnecting' = FALSE
  /\ connectionStatus' = "Conectado"
  /\ sessionStats' = [sessionStats EXCEPT !.sessionStartTime = now,
                                          !.isActive = TRUE]
  /\ lastAlert' = "Connected"
  /\ UNCHANGED <<socketRef, trackVars, permVars, locVars, fetchVars,
                 sentLocations, emitted, nSubmitted, leakedSubs, leakedTimers,
                 accessToken, mounted, authVars, now, connectPending,
                 everCleared, stopReturned>>

\* socket.on("disconnect"); the transport reconnects on its own unless the
\* server closed the connection
SocketDisconnectEvent(s, reconnects) ==
  /\ s \in Sockets
  /\ sockets[s] = "connected"
  /\ sockets' = [sockets EXCEPT
                   ![s] = IF reconnects THEN "opening" ELSE "closed"]
  /\ isConnected' = FALSE
  /\ connectionStatus' = "Desconectado: reason"
  /\ stopTracking
  /\ lastAlert' = "Disconnected"
  /\ UNCHANGED <<isConnecting, socketRef, permVars, locVars, fetchVars,
                 sendVars, leakedSubs, leakedTimers, accessToken, mounted,
                 authVars, now, connectPending, everCleared, stopReturned>>

\* socket.on("connect_error"); the transport retries until its
\* reconnection attempts are used up
SocketConnectErrorEvent(s, retries) ==
  /\ s \in Sockets
  /\ sockets[s] = "opening"
  /\ sockets' = [sockets EXCEPT
                   ![s] = IF retries THEN "opening" ELSE "closed"]
  /\ isConnected' = FALSE
  /\ isConnecting' = FALSE
  /\ connectionStatus' = "Error: message"
  /\ lastAlert' = "ConnectError"
  /\ UNCHANGED <<socketRef, trackVars, permVars, locVars, fetchVars, sendVars,
                 leakedSubs, leakedTimers, accessToken, mounted, authVars, now,
                 connectPending, everCleared, stopReturned>>

\* disconnectFromServer; writes connectionStatus, isConnected, trackVars,
\* sockets, socketRef, sessionStats, lastAlert.  Closing a connected
\* transport fires its disconnect handler before disconnect() returns.
disconnectFromServer ==
  /\ IF socketRef # 0
       THEN /\ sockets' = [sockets EXCEPT ![socketRef] = "closed"]
            /\ socketRef' = 0
       ELSE UNCHANGED <<sockets, socketRef>>
  /\ lastAlert' = IF SocketConnected THEN "Disconnected" ELSE lastAlert
  /\ isConnected' = FALSE
  /\ connectionStatus' = "Desconectado"
  /\ stopTracking
  /\ sessionStats' = [sessionStats EXCEPT !.isActive = FALSE]

\* disconnect()
DisconnectFromServer ==
  /\ disconnectFromServer
  /\ UNCHANGED <<isConnecting, permVars, locVars, fetchVars, sentLocations,
                 emitted, nSubmitted, leakedSubs, leakedTimers, accessToken,
                 mounted, authVars, now, connectPending, everCleared,
                 stopReturned>>

(* --------------------------- session tracker -------------------------- *)
\* startTracking registering its timer before it awaits the initial fetch
StartTracking_TimerBeforeFetch ==
  IF ~isConnected
    THEN /\ lastAlert' = "ConnectFirst"
         /\ UNCHANGED <<reactVars, refVars, sockets, leakedSubs, leakedTimers,
                        accessToken, mounted, authVars, osPermission, now,
                        emitted, procVars, ghostVars>>
  ELSE IF permissionStatus # "granted"
    THEN /\ lastAlert' = "PermissionRequiredTracking"
         /\ UNCHANGED <<reactVars, refVars, sockets, leakedSubs, leakedTimers,
                        accessToken, mounted, authVars, osPermission, now,
                        emitted, procVars, ghostVars>>
  ELSE /\ PendingOps < MaxPending
       /\ isTracking' = TRUE
       /\ trackingIntervalRef' = TRUE
       /\ startFetching' = startFetching + 1
       /\ stopReturned' = FALSE
       /\ UNCHANGED <<connVars, permVars, locVars, sendVars, refreshing,
                      socketRef, locationSubscription, sockets, leakedSubs,
                      leakedTimers, accessToken, mounted, authVars, now,
                      lastAlert, connectPending, startWatching, timerFetching,
                      manualFetching, everCleared>>

\* startTracking without its permission check
StartTracking_NoPermissionCheck ==
  IF ~isConnected
    THEN /\ lastAlert' = "ConnectFirst"
         /\ UNCHANGED <<reactVars, refVars, sockets, leakedSubs, leakedTimers,
                        accessToken, mounted, authVars, osPermission, now,
                        emitted, procVars, ghostVars>>
  ELSE /\ PendingOps < MaxPending
       /\ isTracking' = TRUE
       /\ startFetching' = startFetching + 1
       /\ stopReturned' = FALSE
       /\ UNCHANGED <<connVars, permVars, locVars, sendVars, refreshing,
                      socketRef, locationSubscription, trackingIntervalRef,
                      sockets, leakedSubs, leakedTimers, accessToken, mounted,
                      authVars, now, lastAlert, connectPending, startWatching,
                      timerFetching, manualFetching, everCleared>>

\* startTracking raising the tracking flag before it tests its preconditions
StartTracking_FlagBeforeGuards ==
  IF ~isConnected \/ permissionStatus # "granted"
    THEN /\ lastAlert' = IF ~isConnected THEN "ConnectFirst"
                                         ELSE "PermissionRequiredTracking"
         /\ isTracking' = TRUE
         /\ UNCHANGED <<connVars, permissionStatus, currentLocation,
                        refreshing, sentLocations, sessionStats, refVars,
                        sockets, leakedSubs, leakedTimers, accessToken,
                        mounted, authVars, osPermission, now, emitted, procVars,
                        ghostVars>>
  ELSE /\ PendingOps < MaxPending
       /\ isTracking' = TRUE
       /\ startFetching' = startFetching + 1
       /\ stopReturned' = FALSE
       /\ UNCHANGED <<connVars, permVars, locVars, sendVars, refreshing,
                      socketRef, locationSubscription, trackingIntervalRef,
                      sockets, leakedSubs, leakedTimers, accessToken, mounted,
                      authVars, now, lastAlert, connectPending, startWatching,
                      timerFetching, manualFetching, everCleared>>

\* start(): startTracking up to the await of the initial getCurrentLocation
\* (its closure holds permissionStatus = "granted", so the fetch is issued)
StartTracking ==
  IF ~isConnected
    THEN /\ lastAlert' = "ConnectFirst"
         /\ UNCHANGED <<reactVars, refVars, sockets, leakedSubs, leakedTimers,
                        accessToken, mounted, authVars, osPermission, now,
                        emitted, procVars, ghostVars>>
  ELSE IF permissionStatus # "granted"
    THEN /\ lastAlert' = "PermissionRequiredTracking"
         /\ UNCHANGED <<reactVars, refVars, sockets, leakedSubs, leakedTimers,
                        accessToken, mounted, authVars, osPermission, now,
                        emitted, procVars, ghostVars>>
  ELSE /\ PendingOps < MaxPending
       /\ isTracking' = TRUE
       /\ startFetching' = startFetching + 1
       /\ stopReturned' = FALSE
       /\ UNCHANGED <<connVars, permVars, locVars, sendVars, refreshing,
                      socketRef, locationSubscription, trackingIntervalRef,
                      sockets, leakedSubs, leakedTimers, accessToken, mounted,
                      authVars, now, lastAlert, connectPending, startWatching,
                      timerFetching, manualFetching, everCleared>>

\* startTracking: the initial fetch resolved; the position is sent as auto
\* and Location.watchPositionAsync is awaited
StartFetchResolved(reading) ==
  /\ startFetching > 0
  /\ startFetching' = startFetching - 1
  /\ startWatching' = startWatching + 1
  /\ getCurrentLocationResolved(reading)
  /\ sendLocation(LocationDataOf(reading, now), "auto",
                  LocationDataOf(reading, now), TRUE)
  /\ lastAlert' = SendAlert("none")
  /\ UNCHANGED <<connVars, trackVars, permVars, refreshing, socketRef, sockets,
                 leakedSubs, leakedTimers, accessToken, mounted, authVars, now,
                 connectPending, timerFetching, manualFetching, everCleared,
                 stopReturned>>

\* startTracking giving up when its initial fetch failed
StartFetchFailed_AbortsStart ==
  /\ startFetching > 0
  /\ startFetching' = startFetching - 1
  /\ lastAlert' = "FetchError"
  /\ isTracking' = FALSE
  /\ UNCHANGED <<connVars, locationSubscription, trackingIntervalRef, permVars,
                 locVars, sendVars, refreshing, socketRef, sockets, leakedSubs,
                 leakedTimers, accessToken, mounted, authVars, now,
                 connectPending, startWatching, timerFetching, manualFetching,
                 everCleared, stopReturned>>

\* startTracking: the initial fetch failed (getCurrentLocation returns null)
StartFetchFailed ==
  /\ startFetching > 0
  /\ startFetching' = startFetching - 1
  /\ startWatching' = startWatching + 1
  /\ lastAlert' = "FetchError"
  /\ UNCHANGED <<connVars, trackVars, permVars, locVars, sendVars, refreshing,
                 socketRef, sockets, leakedSubs, leakedTimers, accessToken,
                 mounted, authVars, now, connectPending, timerFetching,
                 manualFetching, everCleared, stopReturned>>

\* startTracking: watchPositionAsync resolved; the subscription and the
\* timer are stored in the refs, whatever the refs held before stays live
StartWatchResolved ==
  /\ startWatching > 0
  /\ startWatching' = startWatching - 1
  /\ locationSubscription => leakedSubs < MaxLeaked
  /\ trackingIntervalRef => leakedTimers < MaxLeaked
  /\ leakedSubs' = IF locationSubscription THEN leakedSubs + 1
                                           ELSE leakedSubs
  /\ leakedTimers' = IF trackingIntervalRef THEN leakedTimers + 1
                                            ELSE leakedTimers
  /\ locationSubscription' = TRUE
  /\ trackingIntervalRef' = TRUE
  /\ lastAlert' = "TrackingStarted"
  /\ UNCHANGED <<connVars, isTracking, permVars, locVars, sendVars, refreshing,
                 socketRef, sockets, accessToken, mounted, authVars, now,
                 connectPending, startFetching, timerFetching, manualFetching,
                 everCleared, stopReturned>>

\* startTracking: watchPositionAsync rejected (catch)
StartWatchFailed ==
  /\ startWatching > 0
  /\ startWatching' = startWatching - 1
  /\ lastAlert' = "TrackingError"
  /\ isTracking' = FALSE
  /\ UNCHANGED <<connVars, locationSubscription, trackingIntervalRef, permVars,
                 locVars, sendVars, refreshing, socketRef, sockets, leakedSubs,
                 leakedTimers, accessToken, mounted, authVars, now,
                 connectPending, startFetching, timerFetching, manualFetching,
                 everCleared, stopReturned>>

\* stop()
StopTracking ==
  /\ stopTracking
  /\ stopReturned' = TRUE
  /\ UNCHANGED <<connVars, permVars, locVars, sendVars, fetchVars, socketRef,
                 sockets, leakedSubs, leakedTimers, accessToken, mounted,
                 authVars, now, lastAlert, connectPending, everCleared>>

\* the subscription callback that drops a position the timer has already
\* fetched
SubscriptionFire_Deduplicated(reading) ==
  /\ locationSubscription \/ leakedSubs > 0
  /\ currentLocation' = LocationObjectOf(reading, now)
  /\ IF lastLocationRef.latitude = reading.latitude
          /\ lastLocationRef.longitude = reading.longitude
       THEN UNCHANGED sendVars
       ELSE sendLocation(LocationDataOf(reading, now), "auto",
                         lastLocationRef, FALSE)
  /\ lastAlert' = SendAlert("none")
  /\ UNCHANGED <<connVars, trackVars, permVars, lastLocationRef, fetchVars,
                 socketRef, sockets, leakedSubs, leakedTimers, accessToken,
                 mounted, authVars, now, connectPending, everCleared,
                 stopReturned>>

\* the callback of a live subscription (referenced or not) is called
SubscriptionFire(reading) ==
  /\ locationSubscription \/ leakedSubs > 0
  /\ currentLocation' = LocationObjectOf(reading, now)
  /\ sendLocation(LocationDataOf(reading, now), "auto", lastLocationRef,
                  FALSE)
  /\ lastAlert' = SendAlert("none")
  /\ UNCHANGED <<connVars, trackVars, permVars, lastLocationRef, fetchVars,
                 socketRef, sockets, leakedSubs, leakedTimers, accessToken,
                 mounted, authVars, now, connectPending, everCleared,
                 stopReturned>>

\* the setInterval callback of a live timer (referenced or not) runs up to
\* the await of getCurrentLocation (closure: permission granted)
TimerTick ==
  /\ trackingIntervalRef \/ leakedTimers > 0
  /\ PendingOps < MaxPending
  /\ timerFetching' = timerFetching + 1
  /\ UNCHANGED <<reactVars, refVars, envVars, authVars, connectPending,
                 startFetching, startWatching, manualFetching, permFlow,
                 permClosure, ghostVars>>

\* setInterval callback: the fetch resolved, the position is sent as auto
TimerFetchResolved(reading) ==
  /\ timerFetching > 0
  /\ timerFetching' = timerFetching - 1
  /\ getCurrentLocationResolved(reading)
  /\ sendLocation(LocationDataOf(reading, now), "auto",
                  LocationDataOf(reading, now), TRUE)
  /\ lastAlert' = SendAlert("none")
  /\ UNCHANGED <<connVars, trackVars, permVars, refreshing, socketRef, sockets,
                 leakedSubs, leakedTimers, accessToken, mounted, authVars, now,
                 connectPending, startFetching, startWatching, manualFetching,
                 everCleared, stopReturned>>

\* setInterval callback: the fetch failed, the cycle is skipped
TimerFetchFailed ==
  /\ timerFetching > 0
  /\ timerFetching' = timerFetching - 1
  /\ lastAlert' = "FetchError"
  /\ UNCHANGED <<reactVars, refVars, sockets, leakedSubs, leakedTimers,
                 accessToken, mounted, authVars, osPermission, now, emitted,
                 connectPending, startFetching, startWatching, manualFetching,
                 permFlow, permClosure, ghostVars>>

(* --------------------- manual and test submission --------------------- *)
\* sendManual(): sendCurrentLocationManually up to the await of the fetch
SendCurrentLocationManually ==
  IF ~isConnected
    THEN /\ lastAlert' = "ConnectFirst"
         /\ UNCHANGED <<reactVars, refVars, sockets, leakedSubs, leakedTimers,
                        accessToken, mounted, authVars, osPermission, now,
                        emitted, procVars, ghostVars>>
  ELSE IF permissionStatus # "granted"
    THEN /\ lastAlert' = "PermissionRequiredFetch"
         /\ UNCHANGED <<reactVars, refVars, sockets, leakedSubs, leakedTimers,
                        accessToken, mounted, authVars, osPermission, now,
                        emitted, procVars, ghostVars>>
  ELSE /\ PendingOps < MaxPending
       /\ manualFetching' = manualFetching + 1
       /\ UNCHANGED <<reactVars, refVars, envVars, authVars, connectPending,
                      startFetching, startWatching, timerFetching, permFlow,
                      permClosure, ghostVars>>

\* sendCurrentLocationManually: the fetch resolved
ManualFetchResolved(reading) ==
  /\ manualFetching > 0
  /\ manualFetching' = manualFetching - 1
  /\ getCurrentLocationResolved(reading)
  /\ sendLocation(LocationDataOf(reading, now), "manual",
                  LocationDataOf(reading, now), TRUE)
  /\ lastAlert' = SendAlert("ManualSent")
  /\ UNCHANGED <<connVars, trackVars, permVars, refreshing, socketRef, sockets,
                 leakedSubs, leakedTimers, accessToken, mounted, authVars, now,
                 connectPending, startFetching, startWatching, timerFetching,
                 everCleared, stopReturned>>

\* sendCurrentLocationManually: the fetch failed
ManualFetchFailed ==
  /\ manualFetching > 0
  /\ manualFetching' = manualFetching - 1
  /\ lastAlert' = "FetchError"
  /\ UNCHANGED <<reactVars, refVars, sockets, leakedSubs, leakedTimers,
                 accessToken, mounted, authVars, osPermission, now, emitted,
                 connectPending, startFetching, startWatching, timerFetching,
                 permFlow, permClosure, ghostVars>>

\* sendTestLocation() with the generated latitude lat
TestLocationAt(lat) ==
  LET testLocation == [latitude |-> lat, longitude |-> Longitude,
                       accuracy |-> TestAccuracy, timestamp |-> now]
  IN /\ currentLocation' = testLocation
     /\ lastLocationRef' = testLocation
     /\ IF isConnected
          THEN /\ sendLocation(testLocation, "test", testLocation, TRUE)
          ELSE /\ UNCHANGED sendVars
     /\ lastAlert' = "TestLocation"
     /\ UNCHANGED <<connVars, trackVars, permVars, fetchVars, socketRef,
                    sockets, leakedSubs, leakedTimers, accessToken, mounted,
                    authVars, now, connectPending, everCleared, stopReturned>>

UseCartagenaTestLocation == \E lat \in Latitudes : TestLocationAt(lat)

(* ------------------------- history management ------------------------- *)
\* the confirmed clear() that forgets to reset the cumulative distance
ClearHistoryConfirm_KeepsDistance ==
  /\ lastAlert' = "ClearPrompt"
  /\ sentLocations' = << >>
  /\ sessionStats' = [sessionStats EXCEPT !.totalLocationsSent = 0,
                                          !.avgAccuracy = 0]
  /\ nSubmitted' = 0
  /\ everCleared' = TRUE
  /\ UNCHANGED <<connVars, trackVars, permVars, locVars, fetchVars, socketRef,
                 sockets, leakedSubs, leakedTimers, accessToken, mounted,
                 authVars, now, emitted, connectPending, stopReturned>>

\* clear(), confirmed in the dialog
ClearHistoryConfirm ==
  /\ lastAlert' = "ClearPrompt"
  /\ sentLocations' = << >>
  /\ sessionStats' = [sessionStats EXCEPT !.totalLocationsSent = 0,
                                          !.totalDistance = 0,
                                          !.avgAccuracy = 0]
  /\ nSubmitted' = 0
  /\ everCleared' = TRUE
  /\ UNCHANGED <<connVars, trackVars, permVars, locVars, fetchVars, socketRef,
                 sockets, leakedSubs, leakedTimers, accessToken, mounted,
                 authVars, now, emitted, connectPending, stopReturned>>

\* clear(), cancelled in the dialog
ClearHistoryCancel ==
  /\ lastAlert' = "ClearPrompt"
  /\ UNCHANGED <<reactVars, refVars, sockets, leakedSubs, leakedTimers,
                 accessToken, mounted, authVars, osPermission, now, emitted,
                 procVars, ghostVars>>

(* ------------------------------ refresh ------------------------------- *)
\* onRefresh up to the await of the fetch
OnRefresh ==
  /\ ~refreshing
  /\ IF permissionStatus = "granted"
       THEN refreshing' = TRUE /\ UNCHANGED lastAlert
       ELSE lastAlert' = "PermissionRequiredFetch" /\ UNCHANGED refreshing
  /\ UNCHANGED <<connVars, trackVars, permVars, locVars, sendVars,
                 startFetching, startWatching, timerFetching, manualFetching,
                 socketRef, sockets, leakedSubs, leakedTimers, accessToken,
                 mounted, authVars, now, connectPending, everCleared,
                 stopReturned>>

\* onRefresh: the fetch resolved
RefreshResolved(reading) ==
  /\ refreshing
  /\ refreshing' = FALSE
  /\ getCurrentLocationResolved(reading)
  /\ UNCHANGED <<connVars, trackVars, permVars, sendVars, startFetching,
                 startWatching, timerFetching, manualFetching, socketRef,
                 envVars, authVars, connectPending, everCleared, stopReturned>>

\* onRefresh: the fetch failed
RefreshFailed ==
  /\ refreshing
  /\ refreshing' = FALSE
  /\ lastAlert' = "FetchError"
  /\ UNCHANGED <<connVars, trackVars, permVars, locVars, sendVars,
                 startFetching, startWatching, timerFetching, manualFetching,
                 socketRef, sockets, leakedSubs, leakedTimers, accessToken,
                 mounted, authVars, now, connectPending, everCleared,
                 stopReturned>>

(* --------------------------- permission gate -------------------------- *)
\* requestLocationPermissions is invoked by its button, which is rendered
\* while permissionStatus is not granted; its closure captures the
\* permissionStatus of the render it was created in
RequestLocationPermissions ==
  /\ permFlow = "idle"
  /\ permissionStatus # "granted"
  /\ permFlow' = "query"
  /\ permClosure' = permissionStatus
  /\ UNCHANGED <<reactVars, refVars, envVars, authVars, connectPending,
                 startFetching, startWatching, timerFetching, manualFetching,
                 ghostVars>>

\* getCurrentLocation called from the permission flow: it tests the
\* permissionStatus of the closure, not the status just set.  No caller
\* holds a closure with "granted" (a fetch would then be awaited).
PermissionWarmUp(granted) ==
  /\ permClosure # "granted"
  /\ permFlow' = "idle"
  /\ lastAlert' = "PermissionRequiredFetch"

\* requestLocationPermissions: getForegroundPermissionsAsync resolved
PermissionQueryResolved ==
  /\ permFlow = "query"
  /\ IF osPermission # "granted"
       THEN /\ permFlow' = "dialog"
            /\ lastAlert' = "PermissionPrompt"
            /\ UNCHANGED permissionStatus
       ELSE /\ permissionStatus' = "granted"
            /\ PermissionWarmUp(lastAlert)
  /\ UNCHANGED <<connVars, isTracking, currentLocation, refreshing,
                 sentLocations, sessionStats, refVars, sockets, leakedSubs,
                 leakedTimers, accessToken, mounted, authVars, osPermission,
                 now, emitted, connectPending, startFetching, startWatching,
                 timerFetching, manualFetching, permClosure, ghostVars>>

\* requestLocationPermissions: getForegroundPermissionsAsync rejected (catch)
PermissionQueryFailed ==
  /\ permFlow = "query"
  /\ permFlow' = "idle"
  /\ lastAlert' = "PermissionCheckError"
  /\ UNCHANGED <<reactVars, refVars, sockets, leakedSubs, leakedTimers,
                 accessToken, mounted, authVars, osPermission, now, emitted,
                 connectPending, startFetching, startWatching, timerFetching,
                 manualFetching, permClosure, ghostVars>>

\* the user answers "No" in the permission dialog
PermissionDialogNo ==
  /\ permFlow = "dialog"
  /\ permFlow' = "idle"
  /\ permissionStatus' = "denied"
  /\ UNCHANGED <<connVars, isTracking, currentLocation, refreshing,
                 sentLocations, sessionStats, refVars, envVars, authVars,
                 connectPending, startFetching, startWatching, timerFetching,
                 manualFetching, permClosure, ghostVars>>

\* the user answers "Si": requestForegroundPermissionsAsync is awaited
PermissionDialogYes ==
  /\ permFlow = "dialog"
  /\ permFlow' = "request"
  /\ UNCHANGED <<reactVars, refVars, envVars, authVars, connectPending,
                 startFetching, startWatching, timerFetching, manualFetching,
                 permClosure, ghostVars>>

\* requestForegroundPermissionsAsync resolved with status
PermissionRequestResolved(status) ==
  /\ permFlow = "request"
  /\ osPermission' = status
  /\ permissionStatus' = status
  /\ IF status = "granted"
       THEN PermissionWarmUp("PermissionGranted")
       ELSE permFlow' = "idle" /\ lastAlert' = "PermissionDenied"
  /\ UNCHANGED <<connVars, isTracking, currentLocation, refreshing,
                 sentLocations, sessionStats, refVars, sockets, leakedSubs,
                 leakedTimers, accessToken, mounted, authVars, now, emitted,
                 connectPending, startFetching, startWatching, timerFetching,
                 manualFetching, permClosure, ghostVars>>

(* ------------------------------- logout ------------------------------- *)
\* useProtectedRoute lists user, segments and isLoading as dependencies of
\* its effect: a step that changes one of them makes the effect due
authDeps == <<user, isLoading, route>>
\* an effect whose dependencies leave out the user
EffectDue_WithoutUser ==
  guardDue' = (guardDue \/ <<isLoading, route>>' # <<isLoading, route>>)

EffectDue == guardDue' = (guardDue \/ authDeps' # authDeps)

\* handleLogout, confirmed: disconnectFromServer(); logout(), which awaits
\* SecureStore.deleteItemAsync and is not awaited by the handler
HandleLogoutConfirm ==
  /\ mounted
  /\ logoutPending < MaxLogouts
  /\ disconnectFromServer
  /\ logoutPending' = logoutPending + 1
  /\ UNCHANGED <<isConnecting, permVars, locVars, fetchVars, sentLocations,
                 emitted, nSubmitted, leakedSubs, leakedTimers, accessToken,
                 mounted, now, connectPending, everCleared, stopReturned,
                 user, isLoading, route, guardDue, loadPc, loginPc,
                 storedByLogin>>

\* logout after SecureStore.deleteItemAsync resolved: setUser(null)
LogoutDeleteResolved ==
  /\ logoutPending > 0
  /\ logoutPending' = logoutPending - 1
  /\ accessToken' = FALSE
  /\ storedByLogin' = FALSE
  /\ user' = FALSE
  /\ UNCHANGED <<isLoading, route>>
  /\ EffectDue
  /\ UNCHANGED <<reactVars, refVars, sockets, leakedSubs, leakedTimers,
                 mounted, osPermission, now, emitted, lastAlert, procVars,
                 ghostVars, loadPc, loginPc>>

\* handleLogout, confirmed, with a token store that answers logout()
\* before anything else happens: HandleLogoutConfirm and
\* LogoutDeleteResolved in one step
HandleLogoutAnswered ==
  /\ mounted
  /\ logoutPending = 0
  /\ disconnectFromServer
  /\ accessToken' = FALSE
  /\ storedByLogin' = FALSE
  /\ user' = FALSE
  /\ UNCHANGED <<isLoading, route>>
  /\ EffectDue
  /\ UNCHANGED <<isConnecting, permVars, locVars, fetchVars, sentLocations,
                 emitted, nSubmitted, leakedSubs, leakedTimers, mounted, now,
                 connectPending, everCleared, stopReturned, loadPc, loginPc,
                 logoutPending>>

\* logout: SecureStore.deleteItemAsync rejected (catch); the user is kept
LogoutDeleteFailed ==
  /\ logoutPending > 0
  /\ logoutPending' = logoutPending - 1
  /\ UNCHANGED <<reactVars, refVars, envVars, procVars, ghostVars, user,
                 isLoading, route, guardDue, loadPc, loginPc, storedByLogin>>

(* ------------------------------ teardown ------------------------------ *)
\* the teardown of the mount effect: cleanup() stops tracking and calls
\* disconnect() on the referenced transport, whose disconnect handler runs
\* if it was connected; the reference is kept.  Nothing reads the React
\* state after the teardown: the continuations still in flight read their
\* closures and the refs.  Writes mounted, trackVars, sockets, isConnected,
\* connectionStatus, lastAlert.
cleanup ==
  /\ mounted' = FALSE
  /\ stopTracking
  /\ sockets' = IF socketRef # 0 THEN [sockets EXCEPT ![socketRef] = "closed"]
                                 ELSE sockets
  /\ IF SocketConnected
       THEN /\ isConnected' = FALSE
            /\ connectionStatus' = "Desconectado: reason"
            /\ lastAlert' = "Disconnected"
       ELSE UNCHANGED <<isConnected, connectionStatus, lastAlert>>

\* the screen is unmounted
Cleanup ==
  /\ mounted
  /\ cleanup
  /\ UNCHANGED <<isConnecting, socketRef, permVars, locVars, fetchVars,
                 sendVars, leakedSubs, leakedTimers, accessToken, authVars,
                 now, connectPending, everCleared, stopReturned>>

(* --------------------------- session restore -------------------------- *)
\* the finally block of loadUserFromStorage and of login
SetIsLoadingFalse ==
  /\ isLoading' = FALSE
  /\ EffectDue

\* what no step of AuthProvider writes but the notice and the token store
AuthFrame ==
  <<reactVars, refVars, sockets, leakedSubs, leakedTimers, mounted,
    osPermission, now, emitted, procVars, ghostVars, logoutPending>>

\* loadUserFromStorage after SecureStore.getItemAsync resolved: with a token
\* it requests /user/me, without one it ends
LoadTokenRead ==
  /\ loadPc = "token"
  /\ UNCHANGED <<AuthFrame, accessToken, lastAlert, user, route, loginPc,
                 storedByLogin>>
  /\ IF accessToken
       THEN /\ loadPc' = "me"
            /\ UNCHANGED <<isLoading, guardDue>>
       ELSE /\ loadPc' = "done"
            /\ SetIsLoadingFalse

\* loadUserFromStorage: SecureStore.getItemAsync rejected (catch)
LoadTokenReadFailed ==
  /\ loadPc = "token"
  /\ loadPc' = "catchRead"
  /\ UNCHANGED <<AuthFrame, accessToken, lastAlert, user, isLoading, route,
                 guardDue, loginPc, storedByLogin>>

\* loadUserFromStorage after /user/me answered: "ok" with a body that
\* parses, "notok", or "threw" (fetch or response.json() rejected)
LoadMeResponded(answer) ==
  /\ loadPc = "me"
  /\ UNCHANGED <<AuthFrame, accessToken, lastAlert, route, loginPc,
                 storedByLogin>>
  /\ CASE answer = "ok" ->
            /\ user' = TRUE
            /\ loadPc' = "done"
            /\ SetIsLoadingFalse
       [] answer = "notok" ->
            /\ loadPc' = "delete"
            /\ UNCHANGED <<user, isLoading, guardDue>>
       [] OTHER ->
            /\ loadPc' = "catchDelete"
            /\ UNCHANGED <<user, isLoading, guardDue>>

\* loadUserFromStorage after SecureStore.deleteItemAsync of the try block
\* resolved
LoadDeleteResolved ==
  /\ loadPc = "delete"
  /\ accessToken' = FALSE
  /\ storedByLogin' = FALSE
  /\ loadPc' = "done"
  /\ UNCHANGED <<user, route>>
  /\ SetIsLoadingFalse
  /\ UNCHANGED <<AuthFrame, lastAlert, loginPc>>

\* loadUserFromStorage: SecureStore.deleteItemAsync of the try block
\* rejected (catch)
LoadDeleteFailed ==
  /\ loadPc = "delete"
  /\ loadPc' = "catchDelete"
  /\ UNCHANGED <<AuthFrame, accessToken, lastAlert, user, isLoading, route,
                 guardDue, loginPc, storedByLogin>>

\* loadUserFromStorage after SecureStore.deleteItemAsync of the catch block
\* resolved
LoadCatchDeleteResolved ==
  /\ loadPc \in {"catchRead", "catchDelete"}
  /\ accessToken' = FALSE
  /\ storedByLogin' = FALSE
  /\ loadPc' = "done"
  /\ UNCHANGED <<user, route>>
  /\ SetIsLoadingFalse
  /\ UNCHANGED <<AuthFrame, lastAlert, loginPc>>

\* loadUserFromStorage: SecureStore.deleteItemAsync of the catch block
\* rejected (inner catch)
LoadCatchDeleteFailed ==
  /\ loadPc \in {"catchRead", "catchDelete"}
  /\ loadPc' = "done"
  /\ UNCHANGED <<user, route>>
  /\ SetIsLoadingFalse
  /\ UNCHANGED <<AuthFrame, accessToken, lastAlert, loginPc, storedByLogin>>

(* -------------------------------- login ------------------------------- *)
\* the catch and finally blocks of login: notice, rethrow, setIsLoading(false)
LoginRejects ==
  /\ lastAlert' = "LoginNetworkError"
  /\ loginPc' = "idle"
  /\ UNCHANGED <<user, route>>
  /\ SetIsLoadingFalse

\* handleLogin with both fields filled in (the button is disabled while
\* isLoggingIn): login() sets isLoading and posts /user/login
Login ==
  /\ isLoginRoute(route)
  /\ loginPc = "idle"
  /\ loginPc' = "login"
  /\ isLoading' = TRUE
  /\ storedByLogin' = FALSE
  /\ UNCHANGED <<user, route>>
  /\ EffectDue
  /\ UNCHANGED <<AuthFrame, accessToken, lastAlert, loadPc>>

\* login after /user/login answered and its body was read: "token" (ok
\* with data.access_token), "rejected" (not ok, or no token in the body) or
\* "threw" (fetch or response.json() rejected)
LoginResponded(answer) ==
  /\ loginPc = "login"
  /\ IF answer = "token"
       THEN /\ loginPc' = "store"
            /\ UNCHANGED <<lastAlert, user, isLoading, route, guardDue>>
       ELSE LoginRejects
  /\ UNCHANGED <<AuthFrame, accessToken, loadPc, storedByLogin>>

\* login after SecureStore.setItemAsync resolved: /user/me is requested
LoginStoreResolved ==
  /\ loginPc = "store"
  /\ accessToken' = TRUE
  /\ storedByLogin' = TRUE
  /\ loginPc' = "me"
  /\ UNCHANGED <<AuthFrame, lastAlert, user, isLoading, route, guardDue,
                 loadPc>>

\* login: SecureStore.setItemAsync rejected (catch)
LoginStoreFailed ==
  /\ loginPc = "store"
  /\ LoginRejects
  /\ UNCHANGED <<AuthFrame, accessToken, loadPc, storedByLogin>>

\* login after /user/me answered: "ok" with a body that parses, "notok" or
\* "threw"
LoginMeResponded(answer) ==
  /\ loginPc = "me"
  /\ IF answer = "ok"
       THEN /\ user' = TRUE
            /\ loginPc' = "idle"
            /\ UNCHANGED <<lastAlert, route>>
            /\ SetIsLoadingFalse
       ELSE LoginRejects
  /\ UNCHANGED <<AuthFrame, accessToken, loadPc, storedByLogin>>

(* ----------------------------- route guard ---------------------------- *)
\* a DriverScreen is constructed and its mount effect has invoked
\* requestLocationPermissions; continuations of an earlier DriverScreen
\* are not followed
DriverScreenMounts ==
  /\ mounted' = TRUE
  /\ isConnected' = FALSE
  /\ isConnecting' = FALSE
  /\ connectionStatus' = "Desconectado"
  /\ isTracking' = FALSE
  /\ permissionStatus' = "undetermined"
  /\ currentLocation' = NullLocation
  /\ refreshing' = FALSE
  /\ sentLocations' = << >>
  /\ sessionStats' = [totalLocationsSent |-> 0, sessionStartTime |-> now,
                      lastLocationTime |-> NoTime, avgAccuracy |-> 0,
                      totalDistance |-> 0, isActive |-> FALSE]
  /\ socketRef' = 0
  /\ locationSubscription' = FALSE
  /\ trackingIntervalRef' = FALSE
  /\ lastLocationRef' = NullLocation
  /\ permFlow' = "query"
  /\ permClosure' = "undetermined"
  /\ nSubmitted' = 0
  /\ everCleared' = FALSE
  /\ stopReturned' = FALSE

\* the effect of useProtectedRoute finds nothing to do: isLoading, or no
\* redirect applies
RouteGuardPasses ==
  /\ guardDue
  /\ \/ isLoading
     \/ ~(~user /\ isDriverRoute(route)) /\ ~(user /\ isLoginRoute(route))
  /\ guardDue' = FALSE
  /\ UNCHANGED <<reactVars, refVars, envVars, procVars, ghostVars, user,
                 isLoading, route, loadPc, loginPc, logoutPending,
                 storedByLogin>>

\* the effect of useProtectedRoute: router.replace("/(tabs)"); the driver
\* screen is unmounted and the change of segments makes the effect due
RedirectToLogin ==
  /\ guardDue
  /\ ~isLoading
  /\ ~user /\ isDriverRoute(route)
  /\ route' = "/(tabs)"
  /\ guardDue' = TRUE
  /\ IF mounted
       THEN cleanup
       ELSE UNCHANGED <<mounted, trackVars, sockets, isConnected,
                        connectionStatus, lastAlert>>
  /\ UNCHANGED <<isConnecting, socketRef, permVars, locVars, fetchVars,
                 sendVars, leakedSubs, leakedTimers, accessToken, now,
                 connectPending, everCleared, stopReturned, user, isLoading,
                 loadPc, loginPc, logoutPending, storedByLogin>>

\* the effect of useProtectedRoute: router.replace("/(tabs)/driver"); the
\* driver screen is mounted and the change of segments makes the effect due
RedirectToDriver ==
  /\ guardDue
  /\ ~isLoading
  /\ user /\ isLoginRoute(route)
  /\ route' = "/(tabs)/driver"
  /\ guardDue' = TRUE
  /\ DriverScreenMounts
  /\ UNCHANGED <<sockets, leakedSubs, leakedTimers, accessToken,
                 osPermission, now, emitted, lastAlert, connectPending,
                 startFetching, startWatching, timerFetching, manualFetching,
                 user, isLoading, loadPc, loginPc, logoutPending,
                 storedByLogin>>

(* -------------------------------- clock ------------------------------- *)
Tick ==
  /\ now < MaxNow
  /\ now' = now + 1
  /\ UNCHANGED <<reactVars, refVars, sockets, leakedSubs, leakedTimers,
                 accessToken, mounted, authVars, osPermission, emitted,
                 lastAlert, procVars, ghostVars>>

(* --------------------------- specifications --------------------------- *)
\* the reading the Geolocation Provider delivers where the position is
\* irrelevant
OneReading == [latitude |-> 10391, longitude |-> Longitude, accuracy |-> 8]

ConnectionSteps(maxSockets) ==
  \/ ConnectToServer
  \/ ConnectTokenRead(maxSockets)
  \/ ConnectTokenReadFailed
  \/ \E s \in 1..maxSockets : SocketConnectEvent(s)
  \/ \E s \in 1..maxSockets, b \in BOOLEAN : SocketDisconnectEvent(s, b)
  \/ \E s \in 1..maxSockets, b \in BOOLEAN : SocketConnectErrorEvent(s, b)
  \/ DisconnectFromServer
  \/ HandleLogoutAnswered

\* the token store answers logout()
LogoutAnswered ==
  \/ LogoutDeleteResolved
  \/ LogoutDeleteFailed

PermissionSteps ==
  \/ RequestLocationPermissions
  \/ PermissionQueryResolved
  \/ PermissionQueryFailed
  \/ PermissionDialogNo
  \/ PermissionDialogYes
  \/ \E st \in {"granted", "denied"} : PermissionRequestResolved(st)

TrackingSteps ==
  \/ StartTracking
  \/ StartFetchFailed
  \/ StartWatchResolved
  \/ StartWatchFailed
  \/ StopTracking
  \/ TimerTick
  \/ TimerFetchFailed

\* the steps of the tracking paths that may hand a sample to the transport
TrackingSubmits(readings) ==
  \/ \E r \in readings : StartFetchResolved(r)
  \/ \E r \in readings : SubscriptionFire(r)
  \/ \E r \in readings : TimerFetchResolved(r)

\* connection, permission and tracking control with one transport
\* instance; one reading, clock at rest
Next ==
  \/ ConnectionSteps(MaxSockets)
  \/ PermissionSteps
  \/ TrackingSteps
  \/ (emitted < MaxSent /\ TrackingSubmits({OneReading}))

Spec == Init /\ [][Next]_vars

\* the same with a second transport instance: connect() after a transport
\* error or a dropped connection
NextReconnect ==
  \/ ConnectionSteps(MaxSocketsReconnect)
  \/ PermissionSteps
  \/ TrackingSteps
  \/ (emitted < MaxSent /\ TrackingSubmits({OneReading}))

SpecReconnect == Init /\ [][NextReconnect]_vars

\* two readings at different latitudes, one of them without accuracy
DataReadings ==
  {[latitude |-> 10391, longitude |-> Longitude, accuracy |-> 8],
   [latitude |-> 10392, longitude |-> Longitude, accuracy |-> 0]}

\* submission, distance and statistics: one transport instance that
\* connects and is closed by disconnect(), every source of positions, two
\* latitudes, clock running
NextData ==
  \/ ConnectToServer
  \/ ConnectTokenRead(MaxSockets)
  \/ \E s \in 1..MaxSockets : SocketConnectEvent(s)
  \/ DisconnectFromServer
  \/ PermissionQueryResolved
  \/ PermissionDialogYes
  \/ PermissionRequestResolved("granted")
  \/ StartTracking
  \/ StartWatchResolved
  \/ StopTracking
  \/ TimerTick
  \/ SendCurrentLocationManually
  \/ OnRefresh
  \/ \E r \in DataReadings : RefreshResolved(r)
  \/ ClearHistoryConfirm
  \/ Tick
  \/ (emitted < MaxSentData /\ TrackingSubmits(DataReadings))
  \/ (emitted < MaxSentData /\ \E r \in DataReadings : ManualFetchResolved(r))
  \/ (emitted < MaxSentData /\ UseCartagenaTestLocation)

SpecData == Init /\ [][NextData]_vars

\* the reading of the k-th submission of a long session: the latitude
\* alternates, so that neighbouring records of the history differ
HistReading ==
  [latitude |-> IF emitted % 2 = 0 THEN 10391 ELSE 10392,
   longitude |-> Longitude, accuracy |-> 8]

\* a long session: more submissions than the history holds, made in turn by
\* the test location, the manual fetch, the subscription and the timer;
\* clear() at most once, at any moment; clock at rest
NextHist ==
  \/ ConnectToServer
  \/ ConnectTokenRead(MaxSockets)
  \/ \E s \in 1..MaxSockets : SocketConnectEvent(s)
  \/ PermissionQueryResolved
  \/ StartTracking
  \/ StartFetchFailed
  \/ StartWatchResolved
  \/ TimerTick
  \/ SendCurrentLocationManually
  \/ (~everCleared /\ ClearHistoryConfirm)
  \/ (emitted < MaxSentHist /\ emitted % 4 = 0
        /\ TestLocationAt(HistReading.latitude))
  \/ (emitted < MaxSentHist /\ emitted % 4 = 1
        /\ ManualFetchResolved(HistReading))
  \/ (emitted < MaxSentHist /\ emitted % 4 = 2
        /\ SubscriptionFire(HistReading))
  \/ (emitted < MaxSentHist /\ emitted % 4 = 3
        /\ TimerFetchResolved(HistReading))

SpecHist == Init /\ [][NextHist]_vars

\* the transport events of the instances 1..maxSockets
TransportEvents(maxSockets) ==
  \/ \E s \in 1..maxSockets : SocketConnectEvent(s)
  \/ \E s \in 1..maxSockets, b \in BOOLEAN : SocketDisconnectEvent(s, b)
  \/ \E s \in 1..maxSockets, b \in BOOLEAN : SocketConnectErrorEvent(s, b)

\* one session without tracking: the connection with its transport events
\* and a second transport instance, test submissions, clock running
NextSession ==
  \/ ConnectToServer
  \/ ConnectTokenRead(MaxSocketsReconnect)
  \/ TransportEvents(MaxSocketsReconnect)
  \/ DisconnectFromServer
  \/ Tick
  \/ (emitted < MaxSentSession /\ UseCartagenaTestLocation)

SpecSession == Init /\ [][NextSession]_vars

\* manual submissions: the connection with its transport events and a
\* second transport instance, the permission query, sendManual() with a
\* fetch that resolves or fails; clock at rest
NextManual ==
  \/ ConnectToServer
  \/ ConnectTokenRead(MaxSocketsReconnect)
  \/ TransportEvents(MaxSocketsReconnect)
  \/ DisconnectFromServer
  \/ PermissionQueryResolved
  \/ SendCurrentLocationManually
  \/ ManualFetchFailed
  \/ (emitted < MaxSentSession
        /\ \E r \in DataReadings : ManualFetchResolved(r))

SpecManual == Init /\ [][NextManual]_vars

\* clear() during a tracked session: one transport that connects, tracking
\* established, submissions by the subscription and by the test location
\* at two latitudes, clear() confirmed or cancelled, clock running
NextClear ==
  \/ ConnectToServer
  \/ ConnectTokenRead(MaxSockets)
  \/ \E s \in 1..MaxSockets : SocketConnectEvent(s)
  \/ PermissionQueryResolved
  \/ StartTracking
  \/ StartFetchFailed
  \/ StartWatchResolved
  \/ ClearHistoryConfirm
  \/ ClearHistoryCancel
  \/ Tick
  \/ (emitted < MaxSentClear /\ \E r \in DataReadings : SubscriptionFire(r))
  \/ (emitted < MaxSentClear /\ UseCartagenaTestLocation)

SpecClear == Init /\ [][NextClear]_vars

\* the two tracking paths: one transport that connects, drops the
\* connection and reconnects on its own, start() whose initial fetch
\* fails, so that every submission comes from the subscription callback or
\* from the timer; two latitudes, clock at rest
NextPaths ==
  \/ ConnectToServer
  \/ ConnectTokenRead(MaxSockets)
  \/ (\E s \in 1..MaxSockets : SocketConnectEvent(s))
  \/ (\E s \in 1..MaxSockets : SocketDisconnectEvent(s, TRUE))
  \/ PermissionQueryResolved
  \/ StartTracking
  \/ StartFetchFailed
  \/ StartWatchResolved
  \/ TimerTick
  \/ TimerFetchFailed
  \/ (emitted < MaxSentPaths /\ \E r \in DataReadings : SubscriptionFire(r))
  \/ (emitted < MaxSentPaths
        /\ \E r \in DataReadings : TimerFetchResolved(r))

SpecPaths == Init /\ [][NextPaths]_vars

\* a Geolocation Provider that never answers the initial fetch of start():
\* connection and permission as in Spec, start() and stop(); no
\* getCurrentPositionAsync issued by startTracking resolves or rejects
NextPendingStart ==
  \/ ConnectionSteps(MaxSockets)
  \/ PermissionSteps
  \/ StartTracking
  \/ StopTracking

SpecPendingStart == Init /\ [][NextPendingStart]_vars

\* the life of the screen up to its teardown and beyond: the user invokes
\* connect(), start() and stop() while the screen is mounted; the
\* continuations of the async functions, the transport events and the
\* callbacks of what is still live run after the teardown as well
NextTeardown ==
  \/ (mounted /\ ConnectToServer)
  \/ ConnectTokenRead(MaxSockets)
  \/ TransportEvents(MaxSockets)
  \/ PermissionQueryResolved
  \/ (mounted /\ StartTracking)
  \/ StartFetchFailed
  \/ StartWatchResolved
  \/ StartWatchFailed
  \/ (mounted /\ StopTracking)
  \/ TimerTick
  \/ TimerFetchFailed
  \/ Cleanup
  \/ (emitted < MaxSent /\ TrackingSubmits({OneReading}))

SpecTeardown == Init /\ [][NextTeardown]_vars

\* the steps of loadUserFromStorage
LoadSteps ==
  \/ LoadTokenRead
  \/ LoadTokenReadFailed
  \/ \E answer \in {"ok", "notok", "threw"} : LoadMeResponded(answer)
  \/ LoadDeleteResolved
  \/ LoadDeleteFailed
  \/ LoadCatchDeleteResolved
  \/ LoadCatchDeleteFailed

\* the steps of login
LoginSteps ==
  \/ Login
  \/ \E answer \in {"token", "rejected", "threw"} : LoginResponded(answer)
  \/ LoginStoreResolved
  \/ LoginStoreFailed
  \/ \E answer \in {"ok", "notok", "threw"} : LoginMeResponded(answer)

\* the runs of the effect of useProtectedRoute
RouteGuardSteps ==
  \/ RouteGuardPasses
  \/ RedirectToLogin
  \/ RedirectToDriver

\* the session from the start of the app: session restore, login, route
\* guard and logout; the driver screen is mounted and unmounted and
\* nothing else is done on it
NextAuth ==
  \/ LoadSteps
  \/ LoginSteps
  \/ RouteGuardSteps
  \/ HandleLogoutConfirm
  \/ LogoutAnswered

SpecAuth == InitApp /\ [][NextAuth]_vars

\* logout from a driver screen that connects and starts tracking: one
\* transport instance, a fetch of start() that rejects, no sample
\* submitted; the route guard unmounts the screen after the logout
NextLogout ==
  \/ (mounted /\ ConnectToServer)
  \/ ConnectTokenRead(MaxSockets)
  \/ (\E s \in 1..MaxSockets : SocketConnectEvent(s))
  \/ PermissionQueryResolved
  \/ (mounted /\ StartTracking)
  \/ StartFetchFailed
  \/ StartWatchResolved
  \/ HandleLogoutConfirm
  \/ LogoutAnswered
  \/ RouteGuardPasses
  \/ RedirectToLogin

SpecLogout == Init /\ [][NextLogout]_vars

(* ------------------------------- claims ------------------------------- *)
\* the connection state of the spec: disconnected / connecting / connected
ConnectionState ==
  IF isConnected THEN "connected"
  ELSE IF isConnecting THEN "connecting" ELSE "disconnected"

\* a step that created a SentRecord of the given kind
Submitted(type) ==
  /\ emitted' = emitted + 1
  /\ sentLocations' # << >>
  /\ Head(sentLocations').type = type

\* C1: in every reachable state the tracking-active flag is true only if
\* the connection state is connected.
C1_TrackingImpliesConnected == isTracking => ConnectionState = "connected"

\* C2: once stop() has returned, and until start() is called again, no
\* step of the tracking paths (initial fetch of a pending start(),
\* subscription callback, timer) submits a sample.
C2_NoSubmissionAfterStop ==
  [][(stopReturned /\ stopReturned') => ~Submitted("auto")]_vars

\* C3: at most one transport instance is open (connected, connecting or
\* reconnecting) at any time.
C3_AtMostOneOpenTransport == Cardinality(OpenSockets) <= 1

\* the distance between the sample submitted in this step and the sample
\* submitted before it
DistanceToPreviousSubmitted ==
  calculateDistance(Head(sentLocations).latitude,
                    Head(sentLocations).longitude,
                    Head(sentLocations').latitude,
                    Head(sentLocations').longitude)

\* C4: every successful submission adds to the cumulative distance the
\* distance between the submitted sample and the previously submitted one,
\* and nothing for the first submission; positions that were fetched or
\* generated but not submitted do not enter the computation.
C4_DistanceBetweenSubmitted ==
  [][emitted' = emitted + 1
       => LET added == sessionStats'.totalDistance
                       - sessionStats.totalDistance
          IN /\ sentLocations # << >>
                  => added = DistanceToPreviousSubmitted
             /\ (sentLocations = << >> /\ ~everCleared) => added = 0
    ]_vars

\* the kinds of the records of the history
HistoryTypes == {sentLocations[i].type : i \in 1..Len(sentLocations)}

\* C5: without clear(), totalLocationsSent equals the number of successful
\* submissions, also beyond 100 submissions (truncated history) and
\* whichever source made each submission.
C5_TotalEqualsSubmissions ==
  ~everCleared => sessionStats.totalLocationsSent = emitted

\* more than 100 submissions, made by every source, and never cleared
C5_Witness ==
  /\ ~everCleared
  /\ emitted > 100
  /\ Len(sentLocations) < emitted
  /\ HistoryTypes = {"test", "manual", "auto"}

\* C6: the history never holds more than 100 records, and its length is
\* min(N, 100), N the number of successful submissions since the last
\* clear().
C6_HistoryLength ==
  /\ Len(sentLocations) <= 100
  /\ Len(sentLocations) = Min(nSubmitted, 100)

\* more than 100 submissions since the last clear()
C6_Witness == nSubmitted > 100 /\ Len(sentLocations) = 100

\* C7: after every successful submission the first element of the history
\* is the record just submitted, the remaining elements are the previous
\* history in unchanged order, and when the history was full the record
\* that left is the last (oldest) one.
C7_NewestFirst ==
  [][emitted' = emitted + 1
       => /\ Head(sentLocations').latitude = currentLocation'.latitude
          /\ Head(sentLocations').timestamp = now
          /\ \A i \in 1..(Len(sentLocations') - 1) :
               sentLocations'[i + 1] = sentLocations[i]
          /\ Len(sentLocations') =
               IF Len(sentLocations) < 100 THEN Len(sentLocations) + 1
                                           ELSE 100
    ]_vars

\* the first submission (a test location) has left the full history: its
\* last record is the second submission (a manual one), its first record
\* differs from its second
C7_Witness ==
  /\ ~everCleared
  /\ emitted = 101
  /\ Len(sentLocations) = 100
  /\ sentLocations[100].type = "manual"
  /\ sentLocations[1] # sentLocations[2]

\* a continuous subscription or a timer is live, or a start() is on its way
\* to establish them
TrackingEstablished ==
  \/ locationSubscription
  \/ trackingIntervalRef
  \/ leakedSubs > 0
  \/ leakedTimers > 0
  \/ startFetching + startWatching > 0

\* C8: a continuous subscription and the timer are only ever established
\* while the permission state is granted; start() with permission denied
\* or undetermined establishes neither.
C8_SubscriptionOnlyWhenGranted ==
  TrackingEstablished =>
    (permissionStatus = "granted" /\ osPermission = "granted")

C8_Witness ==
  /\ locationSubscription
  /\ trackingIntervalRef
  /\ permissionStatus = "granted"
  /\ isTracking

\* what start() may not touch when a precondition fails: everything but
\* the notice
StartFrame ==
  <<reactVars, refVars, sockets, leakedSubs, leakedTimers, accessToken,
    mounted, authVars, osPermission, now, emitted, procVars, ghostVars>>

\* C9: start() invoked while the connection state is not connected, or
\* while permission is not granted, reports a condition and changes
\* nothing else: tracking flag, fetches in flight, subscription, timer,
\* history and statistics stay as they were.
C9_StartRefusedChangesNothing ==
  [][((~isConnected \/ permissionStatus # "granted") /\ StartTracking)
       => /\ UNCHANGED StartFrame
          /\ lastAlert' \in {"ConnectFirst", "PermissionRequiredTracking"}
    ]_vars

C9_Witness ==
  /\ lastAlert = "PermissionRequiredTracking"
  /\ isConnected
  /\ permissionStatus = "denied"
  /\ ~isTracking
  /\ ~TrackingEstablished

\* C10: connect() with no stored token opens no transport, reports the
\* missing authentication and ends disconnected with the connecting flag
\* cleared, so that a later connect() passes its guard.
C10_ConnectWithoutToken ==
  [][(~accessToken /\ ConnectTokenRead(MaxSocketsReconnect))
       => /\ sockets' = sockets
          /\ socketRef' = socketRef
          /\ lastAlert' = "AuthMissing"
          /\ ConnectionState' = "disconnected"
    ]_vars

\* what connect() may not touch when it is a no-op: connection state,
\* status text, statistics, the transport reference, the transports and
\* the pending token reads
ConnectFrame ==
  <<connVars, sessionStats, socketRef, sockets, connectPending>>

\* C11: connect() invoked while connecting or connected is a no-op: no
\* token is read, no transport is opened, and connection state, status
\* text, statistics and the transport reference are unchanged.
C11_ConnectNoOp ==
  [][((isConnecting \/ isConnected) /\ ConnectToServer)
       => UNCHANGED ConnectFrame
    ]_vars

\* the transport is connected: connect() finds the connected flag set
C11_Witness ==
  /\ isConnected
  /\ socketRef # 0
  /\ sockets[socketRef] = "connected"
  /\ connectPending = 0
  /\ sessionStats.isActive

\* a transport-level error event or a transport disconnect event
TransportEvent ==
  \E s \in Sockets, b \in BOOLEAN :
    SocketDisconnectEvent(s, b) \/ SocketConnectErrorEvent(s, b)

\* C12: on every connect_error event and every transport disconnect event
\* the connection state becomes disconnected and tracking is stopped: the
\* tracking flag is inactive and the referenced subscription and timer are
\* cancelled.
C12_TransportEventCascades ==
  [][TransportEvent
       => /\ ConnectionState' = "disconnected"
          /\ ~isTracking'
          /\ ~locationSubscription'
          /\ ~trackingIntervalRef'
    ]_vars

\* C13: with a stored token connect() opens a transport, and the
\* transport's connect event yields the connection state connected with
\* the connecting flag cleared, isActive = true and sessionStartTime set
\* to the current instant.
C13_ConnectSucceeds ==
  [][/\ (accessToken /\ ConnectTokenRead(MaxSocketsReconnect))
          => /\ Len(sockets') = Len(sockets) + 1
             /\ socketRef' = Len(sockets')
             /\ sockets'[socketRef'] = "opening"
     /\ (\E s \in Sockets : SocketConnectEvent(s))
          => /\ ConnectionState' = "connected"
             /\ ~isConnecting'
             /\ sessionStats'.isActive
             /\ sessionStats'.sessionStartTime = now
    ]_vars

\* connected some time after the screen was created: the session start is
\* the instant of the connect event, not the initial one
C13_Witness ==
  /\ ConnectionState = "connected"
  /\ SocketConnected
  /\ sessionStats.isActive
  /\ now > 0
  /\ sessionStats.sessionStartTime = now

\* the state disconnect() is to produce: no transport referenced, tracking
\* stopped, connection state disconnected, session inactive
AfterDisconnect ==
  /\ socketRef = 0
  /\ ~isTracking
  /\ ~locationSubscription
  /\ ~trackingIntervalRef
  /\ ConnectionState = "disconnected"
  /\ ~sessionStats.isActive

\* C14: disconnect() closes the transport if one is open, stops tracking,
\* sets the connection state to disconnected and isActive to false; a
\* second call in a row leaves the state exactly as the first call left
\* it.
C14_DisconnectIdempotent ==
  [][DisconnectFromServer
       => /\ socketRef # 0 => sockets'[socketRef] = "closed"
          /\ AfterDisconnect'
          /\ (~SocketConnected /\ AfterDisconnect
                /\ connectionStatus = "Desconectado") => UNCHANGED vars
    ]_vars

\* a step of a tracking path that calls sendLocation
AutoSubmitCall ==
  \E r \in Readings :
    StartFetchResolved(r) \/ SubscriptionFire(r) \/ TimerFetchResolved(r)

\* a step that calls sendLocation
SubmitCall ==
  \/ AutoSubmitCall
  \/ \E r \in Readings : ManualFetchResolved(r)
  \/ (isConnected /\ UseCartagenaTestLocation)

\* C15: submit(sample, kind) invoked while the transport is not connected
\* reports an error and is otherwise a no-op: nothing is emitted, no
\* record is created, history and statistics are unchanged.
C15_SubmitNotConnected ==
  [][(~SocketConnected /\ SubmitCall)
       => /\ UNCHANGED <<emitted, sentLocations, sessionStats, nSubmitted>>
          /\ AutoSubmitCall => lastAlert' = "NoConnection"
    ]_vars

\* a sample was handed to sendLocation without a connected transport:
\* the error is on display and nothing was recorded
C15_Witness ==
  /\ lastAlert = "NoConnection"
  /\ emitted = 0
  /\ sentLocations = << >>
  /\ sessionStats.totalLocationsSent = 0

\* the state of the program (the history variables of this module left
\* out)
ProgramState == <<reactVars, refVars, envVars, authVars, procVars>>

\* tracking flag inactive, no subscription and no timer referenced
TrackingStopped ==
  /\ ~isTracking
  /\ ~locationSubscription
  /\ ~trackingIntervalRef

C17_ClearResetsCounters ==
  [][/\ ClearHistoryConfirm
          => /\ sentLocations' = << >>
             /\ sessionStats'.totalLocationsSent = 0
             /\ sessionStats'.totalDistance = 0
             /\ sessionStats'.avgAccuracy = 0
             /\ sessionStats'.isActive = sessionStats.isActive
             /\ sessionStats'.sessionStartTime
                  = sessionStats.sessionStartTime
             /\ UNCHANGED <<connVars, trackVars, socketRef, sockets>>
     /\ ClearHistoryCancel => UNCHANGED StartFrame
    ]_vars

\* cleared after a submission, while connected and tracking: the counters
\* are zero, the session is still active and started when the transport
\* connected, the subscription is still referenced
C17_Witness ==
  /\ everCleared
  /\ emitted > 0
  /\ isTracking
  /\ locationSubscription
  /\ sentLocations = << >>
  /\ sessionStats.totalLocationsSent = 0
  /\ sessionStats.avgAccuracy = 0
  /\ sessionStats.isActive
  /\ sessionStats.sessionStartTime > 0
  /\ ConnectionState = "connected"

\* C18: when start() has passed its guards and its immediate fetch yields
\* a position while the connection state is connected, exactly one record
\* of kind auto for that position is submitted in that step, before
\* start() has established the subscription and the timer (it is then
\* awaiting watchPositionAsync).
C18_InitialSubmission ==
  [][(ConnectionState = "connected"
        /\ \E r \in Readings : StartFetchResolved(r))
       => /\ emitted' = emitted + 1
          /\ Len(sentLocations') = Len(sentLocations) + 1
          /\ Head(sentLocations').type = "auto"
          /\ Head(sentLocations').latitude = currentLocation'.latitude
          /\ Head(sentLocations').timestamp = now
          /\ startWatching' = startWatching + 1
          /\ UNCHANGED <<locationSubscription, trackingIntervalRef,
                         leakedSubs, leakedTimers, timerFetching>>
    ]_vars

\* C19: sendManual() invoked while the connection state is not connected
\* reports an error without fetching or submitting; when its fetch fails
\* it reports an error, emits nothing and creates no record; when its
\* fetch succeeds (connection state connected) exactly one record of kind
\* manual is submitted.
C19_SendManual ==
  [][/\ (ConnectionState # "connected" /\ SendCurrentLocationManually)
          => /\ UNCHANGED StartFrame
             /\ lastAlert' = "ConnectFirst"
     /\ ManualFetchFailed
          => /\ UNCHANGED <<emitted, sentLocations, sessionStats>>
             /\ lastAlert' = "FetchError"
     /\ (ConnectionState = "connected"
           /\ \E r \in Readings : ManualFetchResolved(r))
          => /\ emitted' = emitted + 1
             /\ Len(sentLocations') = Len(sentLocations) + 1
             /\ Head(sentLocations').type = "manual"
             /\ Head(sentLocations').latitude = currentLocation'.latitude
    ]_vars

\* C20: sendTestLocation() updates the displayed current position in
\* every connection state; it submits the generated sample as kind test
\* exactly when the connection state is connected; when not connected it
\* emits nothing, creates no record and leaves history and statistics
\* unchanged.
C20_TestLocation ==
  [][UseCartagenaTestLocation
       => /\ currentLocation'.latitude \in Latitudes
          /\ currentLocation'.timestamp = now
          /\ ConnectionState = "connected"
               => /\ emitted' = emitted + 1
                  /\ Len(sentLocations') = Len(sentLocations) + 1
                  /\ Head(sentLocations').type = "test"
                  /\ Head(sentLocations').latitude
                       = currentLocation'.latitude
          /\ ConnectionState # "connected"
               => UNCHANGED <<emitted, sentLocations, sessionStats>>
    ]_vars

\* C21: the identifiers of the records of the history are pairwise
\* distinct, also when two submissions are handled at the same instant of
\* the clock.
C21_UniqueIdentifiers ==
  \A i, j \in 1..Len(sentLocations) :
    i # j => sentLocations[i].id # sentLocations[j].id

\* the accuracy of the record created in this step, in 1/AccUnit metres,
\* a missing value counting as 0
SubmittedAccuracy ==
  IF Head(sentLocations').accuracy = Undefined
    THEN 0
    ELSE Head(sentLocations').accuracy * AccUnit

\* C22: every successful submission sets lastLocationTime to the timestamp
\* of the sample and the average accuracy to the accuracy of the sample if
\* the average was 0, else to the mean of the average and that accuracy (a
\* missing accuracy counting as 0); only a submission and a confirmed
\* clear() change the average.
C22_RunningAverage ==
  [][/\ emitted' = emitted + 1
          => /\ sessionStats'.lastLocationTime
                  = Head(sentLocations').timestamp
             /\ sessionStats'.lastLocationTime = now
             /\ IF sessionStats.avgAccuracy = 0
                  THEN sessionStats'.avgAccuracy = SubmittedAccuracy
                  ELSE 2 * sessionStats'.avgAccuracy
                         = sessionStats.avgAccuracy + SubmittedAccuracy
     /\ sessionStats'.avgAccuracy # sessionStats.avgAccuracy
          => emitted' = emitted + 1 \/ ClearHistoryConfirm
    ]_vars

\* a sample with accuracy 8 m, then, later, one without accuracy: the
\* average is 4 m and the last submission is dated at the later instant
C22_Witness ==
  /\ emitted = 2
  /\ Len(sentLocations) = 2
  /\ sentLocations[2].accuracy = 8
  /\ sentLocations[1].accuracy = Undefined
  /\ sessionStats.avgAccuracy = 4 * AccUnit
  /\ sentLocations[2].timestamp = 0
  /\ sessionStats.lastLocationTime = 1

\* C23: every successful submission emits exactly one sendLocation
\* message, creates exactly one record and adds one to totalLocationsSent,
\* in one step that leaves nothing awaited; hence the records created
\* since the last clear() are as many as totalLocationsSent tells, and
\* messages are emitted by submissions only.
C23_OneMessagePerSubmission ==
  [][/\ (\/ emitted' # emitted
         \/ nSubmitted' > nSubmitted
         \/ sessionStats'.totalLocationsSent
              > sessionStats.totalLocationsSent)
          => /\ emitted' = emitted + 1
             /\ nSubmitted' = nSubmitted + 1
             /\ sessionStats'.totalLocationsSent
                  = sessionStats.totalLocationsSent + 1
             /\ sentLocations' # << >>
             /\ Tail(sentLocations')
                  = SubSeq(sentLocations, 1, Len(sentLocations') - 1)
             /\ PendingOps' <= PendingOps
     /\ sessionStats'.totalLocationsSent = nSubmitted'
    ]_vars

\* a submission, clear(), and another submission: two messages were
\* emitted, one of them since the clear
C23_Witness ==
  /\ everCleared
  /\ emitted = 2
  /\ nSubmitted = 1
  /\ Len(sentLocations) = 1
  /\ sessionStats.totalLocationsSent = 1

\* C24: while tracking is active and the transport is connected, every
\* subscription callback and every timer tick whose fetch succeeds makes
\* its own submission of kind auto for its position, whatever was
\* submitted before: the history gains one record and one message is
\* emitted.
C24_PathsNotDeduplicated ==
  [][\A r \in Readings :
       (/\ isTracking
        /\ SocketConnected
        /\ SubscriptionFire(r) \/ TimerFetchResolved(r))
         => /\ emitted' = emitted + 1
            /\ sentLocations'
                 = <<[id |-> now, type |-> "auto", latitude |-> r.latitude,
                      longitude |-> r.longitude,
                      accuracy |-> IF r.accuracy = 0 THEN Undefined
                                                     ELSE r.accuracy,
                      timestamp |-> now]>> \o sentLocations
    ]_vars

\* the timer has fetched a position (only its fetch sets lastLocationRef
\* here) and the same position was submitted twice at that instant: two
\* records, two messages
C24_Witness ==
  /\ isTracking
  /\ SocketConnected
  /\ locationSubscription
  /\ trackingIntervalRef
  /\ emitted = 2
  /\ Len(sentLocations) = 2
  /\ sentLocations[1] = sentLocations[2]
  /\ sentLocations[1].type = "auto"
  /\ lastLocationRef.latitude = sentLocations[1].latitude
  /\ lastLocationRef.timestamp = sentLocations[1].timestamp

\* the permission gate observes the status granted at its query, or
\* obtains it from the request the user triggered
GrantObserved ==
  \/ osPermission = "granted" /\ PermissionQueryResolved
  \/ PermissionRequestResolved("granted")

\* C25: whenever the permission gate observes or obtains the status
\* granted, a position fetch is issued at once: getCurrentLocation does not
\* refuse with its permission notice, and the gate is then awaiting the
\* fetch.
C25_GrantFetchesPosition ==
  [][GrantObserved
       => /\ permissionStatus' = "granted"
          /\ lastAlert' # "PermissionRequiredFetch"
          /\ permFlow' # "idle"
    ]_vars

\* a position fetch fails: getCurrentPositionAsync rejects
FetchFailed ==
  StartFetchFailed \/ TimerFetchFailed \/ ManualFetchFailed \/ RefreshFailed

\* the session state: connection, transports, tracking flag, subscriptions
\* and timers, displayed and last position, history, statistics, messages
SessionState ==
  <<connVars, socketRef, sockets, trackVars, leakedSubs, leakedTimers,
    locVars, sentLocations, sessionStats, emitted>>

\* C26: a failed position fetch is reported and leaves the session state
\* as it was; a failed fetch of the timer ends that cycle without
\* submission, the timer staying live; after a failed initial fetch
\* start() goes on to await watchPositionAsync, which establishes the
\* subscription and the timer.
C26_FetchErrorTolerated ==
  [][/\ FetchFailed
          => /\ lastAlert' = "FetchError"
             /\ UNCHANGED SessionState
     /\ TimerFetchFailed
          => /\ timerFetching' = timerFetching - 1
             /\ UNCHANGED <<startFetching, startWatching>>
     /\ StartFetchFailed
          => /\ startWatching' = startWatching + 1
             /\ UNCHANGED timerFetching
    ]_vars

\* the initial fetch of start() failed (no position was ever displayed),
\* the subscription and the timer were established all the same, and a
\* fetch of the timer has failed since: tracking goes on, nothing was
\* submitted
C26_Witness ==
  /\ isTracking
  /\ locationSubscription
  /\ trackingIntervalRef
  /\ PendingOps = 0
  /\ lastAlert = "FetchError"
  /\ currentLocation = NullLocation
  /\ emitted = 0
  /\ sentLocations = << >>
  /\ ConnectionState = "connected"

\* C27: when establishing the continuous subscription fails inside
\* start(), the error is reported and the session is idle: the tracking
\* flag is inactive, no subscription and no timer are registered, and the
\* connection state is unchanged.
C27_WatchErrorReturnsToIdle ==
  [][StartWatchFailed
       => /\ lastAlert' = "TrackingError"
          /\ TrackingStopped'
          /\ UNCHANGED <<connVars, socketRef, sockets>>
    ]_vars

\* a step that resets the tracking flag: stop(), disconnect() (also
\* through logout) or a transport disconnect event
TrackingReset ==
  \/ StopTracking
  \/ DisconnectFromServer
  \/ HandleLogoutAnswered
  \/ \E s \in Sockets, b \in BOOLEAN : SocketDisconnectEvent(s, b)

\* C28: when the immediate fetch of start() never resolves, start() stays
\* pending: having passed its guards it raises the tracking flag and awaits
\* the fetch for ever; the flag falls only by stop() or a disconnect; no
\* subscription and no timer is ever established, watchPositionAsync is
\* never awaited and nothing is submitted.
C28_StartStaysPending ==
  [][/\ (isConnected /\ permissionStatus = "granted" /\ StartTracking)
          => /\ isTracking'
             /\ startFetching' = startFetching + 1
     /\ startFetching' >= startFetching
     /\ (isTracking /\ ~isTracking') => TrackingReset
     /\ isTracking' => startFetching' > 0
     /\ ~locationSubscription'
     /\ ~trackingIntervalRef'
     /\ leakedSubs' = 0
     /\ leakedTimers' = 0
     /\ startWatching' = 0
     /\ emitted' = 0
    ]_vars

\* start() is awaiting its fetch with the flag raised and nothing
\* established
C28_Witness ==
  /\ startFetching > 0
  /\ isTracking
  /\ ~stopReturned
  /\ ConnectionState = "connected"
  /\ ~locationSubscription
  /\ ~trackingIntervalRef
  /\ emitted = 0

\* every async function of the screen has settled
Settled ==
  /\ PendingOps = 0
  /\ connectPending = 0
  /\ permFlow \in {"idle", "dialog"}

\* C29: after the teardown of the screen, once every pending async
\* function has settled, no continuous subscription, no timer and no open
\* transport remain.
C29_TeardownReleasesEverything ==
  (~mounted /\ Settled)
    => /\ ~locationSubscription
       /\ ~trackingIntervalRef
       /\ leakedSubs = 0
       /\ leakedTimers = 0
       /\ OpenSockets = {}

\* C30: the Session Tracker never retries on its own: a transport is only
\* opened by connect() reading the token, a disconnect or connect_error
\* event neither opens a transport nor invokes connect(), and when the
\* transport fires connect (again) the connection state is connected while
\* tracking is inactive: flag down, no subscription, no timer, no start()
\* under way.
C30_NoRetryByTracker ==
  [][/\ Len(sockets') > Len(sockets) => connectPending' < connectPending
     /\ TransportEvent => UNCHANGED <<Len(sockets), connectPending>>
     /\ (\E s \in Sockets : SocketConnectEvent(s))
          => /\ ConnectionState' = "connected"
             /\ UNCHANGED <<trackVars, startFetching, startWatching>>
             /\ TrackingStopped'
    ]_vars

\* C31: at most one continuous subscription and at most one timer are
\* live, and each live one is the one the session references: none is live
\* without being referenced.
C31_NoUnreferencedSubscription ==
  /\ leakedSubs = 0
  /\ leakedTimers = 0

\* C32: after disconnect() has returned (invoked directly or through
\* logout) the connection state is disconnected, neither connected nor
\* connecting, also when a connection attempt was in progress; a later
\* connect() then passes its guard.
C32_DisconnectedAfterDisconnect ==
  [][(DisconnectFromServer \/ HandleLogoutAnswered)
       => /\ ConnectionState' = "disconnected"
          /\ ~(isConnecting' \/ isConnected')
    ]_vars

\* the history and the counters of the statistics
Counters ==
  <<sentLocations, sessionStats.totalLocationsSent,
    sessionStats.totalDistance, sessionStats.avgAccuracy>>

\* connect(), disconnect(), stop(), a start() refused by its guards, or a
\* transport connect or disconnect event
ConnectionOrControlStep ==
  \/ ConnectToServer
  \/ ConnectTokenRead(MaxSockets)
  \/ DisconnectFromServer
  \/ StopTracking
  \/ (~isConnected \/ permissionStatus # "granted") /\ StartTracking
  \/ \E s \in Sockets : SocketConnectEvent(s)
  \/ \E s \in Sockets, b \in BOOLEAN : SocketDisconnectEvent(s, b)

\* C33: the transport connect and disconnect events, connect(),
\* disconnect(), stop() and a start() refused by its guards never change
\* the history, totalLocationsSent, totalDistance or avgAccuracy: a step
\* that changes one of these submits a sample or confirms clear(), and is
\* none of those operations and events.
C33_CountersChangeBySubmissionOnly ==
  [][~UNCHANGED Counters
       => /\ emitted' = emitted + 1 \/ ClearHistoryConfirm
          /\ ~ConnectionOrControlStep
    ]_vars

\* a sample was submitted by start(), the transport dropped the connection
\* and has connected again: the record and the counter are still there
C33_Witness ==
  /\ ConnectionState = "connected"
  /\ lastAlert = "Connected"
  /\ ~isTracking
  /\ PendingOps = 0
  /\ emitted = 1
  /\ Len(sentLocations) = 1
  /\ sessionStats.totalLocationsSent = 1
  /\ sessionStats.avgAccuracy = 8 * AccUnit

\* logout() has completed: the user is null and no logout() awaits the
\* token store
LoggedOut == ~user /\ logoutPending = 0

\* no continuous subscription and no timer is live and the tracking flag
\* is down
NothingTracks ==
  /\ ~isTracking
  /\ ~locationSubscription
  /\ ~trackingIntervalRef
  /\ leakedSubs = 0
  /\ leakedTimers = 0

\* C34: after a confirmed logout from the driver screen has completed, no
\* transport is open, tracking is stopped, the stored access token is
\* deleted and the user is null; a connect() whose token read resolves
\* afterwards finds no token and opens no transport.
C34_LogoutEndsSession ==
  /\ [](LoggedOut => /\ OpenSockets = {}
                     /\ NothingTracks
                     /\ ~accessToken)
  /\ [][(LoggedOut /\ ConnectTokenRead(MaxSockets))
          => /\ sockets' = sockets
             /\ lastAlert' = "AuthMissing"
       ]_vars

\* a step in which login settles with a failure: /user/login answered
\* not-ok, without a token or threw, the token store rejected, or /user/me
\* answered not-ok or threw
LoginFails ==
  \/ \E answer \in {"rejected", "threw"} : LoginResponded(answer)
  \/ LoginStoreFailed
  \/ \E answer \in {"notok", "threw"} : LoginMeResponded(answer)

\* C35: login sets the user only after /user/login returned a token and
\* /user/me answered ok; whenever login fails it rejects (after the notice
\* of its catch block), leaves the user as it was, leaves no access token
\* of that attempt in the secure store and has set isLoading to false.
C35_LoginAllOrNothing ==
  [][/\ (LoginSteps /\ user' # user) => LoginMeResponded("ok")
     /\ LoginFails => /\ lastAlert' = "LoginNetworkError"
                      /\ user' = user
                      /\ ~(accessToken' /\ storedByLogin')
                      /\ ~isLoading'
    ]_vars

\* C36: session restore always ends with isLoading false; it sets the user
\* only when a token was stored and /user/me answered ok; when a token was
\* stored and /user/me answered not-ok or the request threw, it ends with
\* the stored token deleted and the user null; when no token was stored it
\* ends without a request.
C36_RestoreSettles ==
  [][/\ (LoadSteps /\ loadPc' = "done") => ~isLoading'
     /\ (LoadSteps /\ user' # user) => (loadPc = "me" /\ LoadMeResponded("ok"))
     /\ (LoadSteps /\ loadPc \in {"delete", "catchDelete"} /\ loadPc' = "done")
          => (~accessToken' /\ ~user')
     /\ (LoadTokenRead /\ ~accessToken) => loadPc' = "done"
    ]_vars

\* nothing is loading and no run of the effect of useProtectedRoute is due
GuardSettled == ~isLoading /\ ~guardDue

\* C37: whenever isLoading is false, for a null user on the driver route
\* the effect of the route guard is due and its run redirects to the login
\* route, and for a non-null user on the login route it is due and its run
\* redirects to the driver route; the route changes in no other way, in
\* particular never while isLoading is true; hence in every settled state
\* the driver route is shown only to a non-null user.
C37_RouteGuard ==
  /\ []((~isLoading /\ ~user /\ isDriverRoute(route))
          => ENABLED RedirectToLogin)
  /\ []((~isLoading /\ user /\ isLoginRoute(route))
          => ENABLED RedirectToDriver)
  /\ [][route' # route
          => /\ ~isLoading
             /\ \/ ~user /\ isDriverRoute(route) /\ route' = "/(tabs)"
                \/ user /\ isLoginRoute(route) /\ route' = "/(tabs)/driver"
       ]_vars
  /\ [](GuardSettled => (isDriverRoute(route) => user))

\* a login has stored its token and set the user, the guard has redirected
\* to the driver route, whose screen is mounted, and has run again
C37_Witness ==
  /\ GuardSettled
  /\ isDriverRoute(route)
  /\ mounted
  /\ user
  /\ storedByLogin
  /\ loginPc = "idle"

====
